---- MODULE Spec2Model ----
(***************************************************************************)
(* A model of path.c of overlayfs-progs: joinname() and basename2().       *)
(*                                                                         *)
(* A C string is a finite sequence of characters followed by a NUL; a      *)
(* pointer into it is the buffer's contents plus an offset.  Each function *)
(* is a small-step machine whose program counter is named after the source *)
(* line it is about to execute.  A caller picks two strings a and b and    *)
(* either calls joinname(a, b), or calls basename2(a, b) and then may hand *)
(* the result back to joinname(b, basename2(a, b)).                        *)
(***************************************************************************)
EXTENDS Integers, Sequences, FiniteSets, TLC

\* Longest input string the caller passes.
MaxLen == 4

\* '.' and '/' are the two characters the code tests; "a" is any other.
Alphabet == {".", "/", "a"}

NUL == "NUL"
\* A pointer to allocated memory is its bytes; the null pointer has none.
NULL == [null |-> TRUE]
Unwritten == "?"
OutOfString == "OOB"

Strings == UNION {[1..n -> Alphabet] : n \in 0..MaxLen}

VARIABLES
    a, b,             \* the caller's two strings
    pc,               \* the source line about to run
    \* joinname's frame
    pathBuf, nameBuf, \* the strings the arguments point into
    path, name,       \* the pointers, as offsets into pathBuf and nameBuf
    lenp, lenn, len, slash,
    str,              \* the malloc'ed buffer: NULL, or bytes 0..len-1
    oob,              \* a write outside the buffer, or a copy of negative size
    jret,             \* joinname's return value
    \* basename2's frame
    bpath, dir,       \* the pointers, as offsets into a (path) and b (dir)
    lend,
    bstr,             \* the local str: an offset into a
    ret               \* basename2's return value: a view into a, or into dot

jvars == <<pathBuf, nameBuf, path, name, lenp, lenn, len, slash, str, oob, jret>>
bvars == <<bpath, dir, lend, bstr, ret>>
vars == <<a, b, pc, jvars, bvars>>

\* basename2 has not returned.
None == [buf |-> "none", off |-> 0]

------------------------------------------------------------------------------
\* Primitive string operations of <string.h>

\* s[i] in C, with s a pointer to the start of the string.
Ch(s, i) ==
    IF i >= 0 /\ i < Len(s) THEN s[i + 1]
    ELSE IF i = Len(s) THEN NUL
    ELSE OutOfString

strlen(s) == Len(s)

\* strncmp(s1 + o1, s2 + o2, n) == 0
RECURSIVE strncmp0(_, _, _, _, _)
strncmp0(s1, o1, s2, o2, n) ==
    IF n <= 0 THEN TRUE
    ELSE IF Ch(s1, o1) # Ch(s2, o2) THEN FALSE
    ELSE IF Ch(s1, o1) = NUL THEN TRUE
    ELSE strncmp0(s1, o1 + 1, s2, o2 + 1, n - 1)

\* malloc(n) when it succeeds: n bytes of indeterminate content.
malloc(n) == [null |-> FALSE, mem |-> [i \in 0..(n - 1) |-> Unwritten]]

\* buf[i] = c; a store outside the allocation leaves the model's buffer alone
\* and is recorded by StoreBad.
Store(buf, i, c) == IF i \in DOMAIN buf.mem THEN [buf EXCEPT !.mem[i] = c] ELSE buf
StoreBad(buf, i) == i \notin DOMAIN buf.mem

\* memcpy(buf + at, s + off, n)
RECURSIVE memcpy(_, _, _, _, _)
memcpy(buf, at, s, off, n) ==
    IF n <= 0 THEN buf
    ELSE memcpy(Store(buf, at, Ch(s, off)), at + 1, s, off + 1, n - 1)

memcpyBad(buf, at, s, off, n) ==
    \/ n < 0
    \/ \E k \in 0..(n - 1) : StoreBad(buf, at + k) \/ off + k > Len(s)

\* The C string a buffer holds: the bytes before its first NUL.
BufString(buf) ==
    LET nuls == {i \in DOMAIN buf.mem : buf.mem[i] = NUL}
        n == IF nuls = {} THEN Cardinality(DOMAIN buf.mem)
             ELSE CHOOSE i \in nuls : \A k \in nuls : i <= k
    IN [i \in 1..n |-> buf.mem[i - 1]]

\* The string a pointer s + off points to.
Suffix(s, off) == SubSeq(s, off + 1, Len(s))

------------------------------------------------------------------------------
Init ==
    /\ a \in Strings
    /\ b \in Strings
    /\ pc = "idle"
    /\ pathBuf = <<>> /\ nameBuf = <<>>
    /\ path = 0 /\ name = 0
    /\ lenp = 0 /\ lenn = 0 /\ len = 0 /\ slash = 0
    /\ str = NULL
    /\ oob = FALSE
    /\ jret = NULL
    /\ bpath = 0 /\ dir = 0 /\ lend = 0 /\ bstr = 0
    /\ ret = None

------------------------------------------------------------------------------
\* joinname(path, name)

\* The frame on entry, lines 58-62.
JoinEnter(p, n) ==
    /\ pathBuf' = p
    /\ nameBuf' = n
    /\ path' = 0
    /\ name' = 0
    /\ lenp' = strlen(p)
    /\ lenn' = strlen(n)
    /\ slash' = 0
    /\ len' = 0
    /\ str' = NULL
    /\ oob' = FALSE
    /\ jret' = NULL
    /\ pc' = "j64"

\* The caller calls joinname(a, b).
CallJoinname ==
    /\ pc = "idle"
    /\ JoinEnter(a, b)
    /\ UNCHANGED <<a, b, bvars>>

\* if (path[0] == '.' && lenp == 1)
IsDot(s, off, l) == Ch(s, off) = "." /\ l = 1

\* path[0] == '.' && path[1] == '/'
IsDotSlash(s, off) == Ch(s, off) = "." /\ Ch(s, off + 1) = "/"

JoinDotPath ==
    /\ pc = "j64"
    /\ IF IsDot(pathBuf, path, lenp)
       THEN path' = path + 1 /\ lenp' = 0
       ELSE UNCHANGED <<path, lenp>>
    /\ pc' = "j68"
    /\ UNCHANGED <<a, b, bvars, pathBuf, nameBuf, name, lenn, len, slash, str, oob, jret>>

JoinDotName ==
    /\ pc = "j68"
    /\ IF IsDot(nameBuf, name, lenn)
       THEN name' = name + 1 /\ lenn' = 0
       ELSE UNCHANGED <<name, lenn>>
    /\ pc' = "j73"
    /\ UNCHANGED <<a, b, bvars, pathBuf, nameBuf, path, lenp, len, slash, str, oob, jret>>

\* lenn-=2 forgotten.
JoinStripName_NoLen ==
    /\ pc = "j73"
    /\ IF IsDotSlash(nameBuf, name)
       THEN name' = name + 2 /\ UNCHANGED lenn /\ pc' = "j73"
       ELSE UNCHANGED <<name, lenn>> /\ pc' = "j74"
    /\ UNCHANGED <<a, b, bvars, pathBuf, nameBuf, path, lenp, len, slash, str, oob, jret>>

\* for (; name[0] == '.' && name[1] == '/'; name+=2, lenn-=2);
JoinStripName ==
    /\ pc = "j73"
    /\ IF IsDotSlash(nameBuf, name)
       THEN name' = name + 2 /\ lenn' = lenn - 2 /\ pc' = "j73"
       ELSE UNCHANGED <<name, lenn>> /\ pc' = "j74"
    /\ UNCHANGED <<a, b, bvars, pathBuf, nameBuf, path, lenp, len, slash, str, oob, jret>>

\* for (; path[0] == '.' && path[1] == '/'; path+=2, lenp-=2);
JoinStripPath ==
    /\ pc = "j74"
    /\ IF IsDotSlash(pathBuf, path)
       THEN path' = path + 2 /\ lenp' = lenp - 2 /\ pc' = "j74"
       ELSE UNCHANGED <<path, lenp>> /\ pc' = "j75"
    /\ UNCHANGED <<a, b, bvars, pathBuf, nameBuf, name, lenn, len, slash, str, oob, jret>>

\* for (; name[0] == '/'; name++, lenn--);
JoinStripSlash ==
    /\ pc = "j75"
    /\ IF Ch(nameBuf, name) = "/"
       THEN name' = name + 1 /\ lenn' = lenn - 1 /\ pc' = "j75"
       ELSE UNCHANGED <<name, lenn>> /\ pc' = "j77"
    /\ UNCHANGED <<a, b, bvars, pathBuf, nameBuf, path, lenp, len, slash, str, oob, jret>>

\* The test of path's last character forgotten.
NeedSlash_NoTrailCheck(s, off, lp, ln) == lp > 0 /\ ln > 0

\* (lenp > 0) && (lenn > 0) && (path[lenp-1] != '/')
NeedSlash(s, off, lp, ln) == lp > 0 /\ ln > 0 /\ Ch(s, off + lp - 1) # "/"

\* The terminator's byte forgotten.
SumLen_NoTerminator(lp, ln) == lp + ln

\* len = lenp + lenn + 1;
SumLen(lp, ln) == lp + ln + 1

\* Lines 77-84.
JoinLen ==
    /\ pc = "j77"
    /\ IF lenp = 0 /\ lenn = 0
       THEN len' = SumLen(lenp, lenn) + 1 /\ UNCHANGED slash
       ELSE IF NeedSlash(pathBuf, path, lenp, lenn)
            THEN slash' = 1 /\ len' = SumLen(lenp, lenn) + 1
            ELSE len' = SumLen(lenp, lenn) /\ UNCHANGED slash
    /\ pc' = "j86"
    /\ UNCHANGED <<a, b, bvars, pathBuf, nameBuf, path, name, lenp, lenn, str, oob, jret>>

\* str = malloc(len); if (!str) goto out;
JoinMalloc ==
    /\ pc = "j86"
    /\ \/ str' = malloc(len) /\ pc' = "j90"
       \/ str' = NULL /\ pc' = "j102"
    /\ UNCHANGED <<a, b, bvars, pathBuf, nameBuf, path, name, lenp, lenn, len, slash, oob, jret>>

\* if (lenp == 0 && lenn == 0) str[0] = '.'; else memcpy(str, path, lenp);
JoinCopyPath ==
    /\ pc = "j90"
    /\ IF lenp = 0 /\ lenn = 0
       THEN /\ str' = Store(str, 0, ".")
            /\ oob' = (oob \/ StoreBad(str, 0))
            /\ pc' = "j100"
       ELSE /\ str' = memcpy(str, 0, pathBuf, path, lenp)
            /\ oob' = (oob \/ memcpyBad(str, 0, pathBuf, path, lenp))
            /\ pc' = "j94"
    /\ UNCHANGED <<a, b, bvars, pathBuf, nameBuf, path, name, lenp, lenn, len, slash, jret>>

\* lenp++ forgotten: the name is copied over the separator.
JoinSeparator_NoAdvance ==
    /\ pc = "j94"
    /\ IF slash # 0
       THEN /\ str' = Store(str, lenp, "/")
            /\ oob' = (oob \/ StoreBad(str, lenp))
       ELSE UNCHANGED <<str, oob>>
    /\ pc' = "j98"
    /\ UNCHANGED <<a, b, bvars, pathBuf, nameBuf, path, name, lenp, lenn, len, slash, jret>>

\* if (slash) { str[lenp] = '/'; lenp++; }
JoinSeparator ==
    /\ pc = "j94"
    /\ IF slash # 0
       THEN /\ str' = Store(str, lenp, "/")
            /\ oob' = (oob \/ StoreBad(str, lenp))
            /\ lenp' = lenp + 1
       ELSE UNCHANGED <<str, oob, lenp>>
    /\ pc' = "j98"
    /\ UNCHANGED <<a, b, bvars, pathBuf, nameBuf, path, name, lenn, len, slash, jret>>

\* memcpy(str+lenp, name, lenn);
JoinCopyName ==
    /\ pc = "j98"
    /\ str' = memcpy(str, lenp, nameBuf, name, lenn)
    /\ oob' = (oob \/ memcpyBad(str, lenp, nameBuf, name, lenn))
    /\ pc' = "j100"
    /\ UNCHANGED <<a, b, bvars, pathBuf, nameBuf, path, name, lenp, lenn, len, slash, jret>>

\* str[len-1] = '\0';
JoinTerminate ==
    /\ pc = "j100"
    /\ str' = Store(str, len - 1, NUL)
    /\ oob' = (oob \/ StoreBad(str, len - 1))
    /\ pc' = "j102"
    /\ UNCHANGED <<a, b, bvars, pathBuf, nameBuf, path, name, lenp, lenn, len, slash, jret>>

\* out: return str;
JoinReturn ==
    /\ pc = "j102"
    /\ jret' = str
    /\ pc' = "j_done"
    /\ UNCHANGED <<a, b, bvars, pathBuf, nameBuf, path, name, lenp, lenn, len, slash, str, oob>>

------------------------------------------------------------------------------
\* basename2(path, dir), called on the caller's a (path) and b (dir)

\* static const char dot[] = ".";
dot == <<".">>

\* A returned pointer: into the path argument at an offset, or to dot.
IntoPath(off) == [buf |-> "path", off |-> off]
ToDot == [buf |-> "dot", off |-> 0]

\* The string a returned pointer points to.
RetString(r) == IF r.buf = "dot" THEN Suffix(dot, r.off) ELSE Suffix(a, r.off)

\* Lines 138-140.
CallBasename2 ==
    /\ pc = "idle"
    /\ bpath' = 0
    /\ dir' = 0
    /\ lend' = strlen(b)
    /\ bstr' = 0
    /\ ret' = None
    /\ pc' = "b142"
    /\ UNCHANGED <<a, b, jvars>>

\* for (; path[0] == '.' && path[1] == '/'; path+=2);
BaseStripPath ==
    /\ pc = "b142"
    /\ IF IsDotSlash(a, bpath)
       THEN bpath' = bpath + 2 /\ pc' = "b142"
       ELSE UNCHANGED bpath /\ pc' = "b143"
    /\ UNCHANGED <<a, b, jvars, dir, lend, bstr, ret>>

\* for (; dir[0] == '.' && dir[1] == '/'; dir+=2, lend-=2);
BaseStripDir ==
    /\ pc = "b143"
    /\ IF IsDotSlash(b, dir)
       THEN dir' = dir + 2 /\ lend' = lend - 2 /\ pc' = "b143"
       ELSE UNCHANGED <<dir, lend>> /\ pc' = "b145"
    /\ UNCHANGED <<a, b, jvars, bpath, bstr, ret>>

\* if (dir[0] == '.' && lend == 1) { dir++; lend = 0; }
BaseDotDir ==
    /\ pc = "b145"
    /\ IF IsDot(b, dir, lend)
       THEN dir' = dir + 1 /\ lend' = 0
       ELSE UNCHANGED <<dir, lend>>
    /\ pc' = "b150"
    /\ UNCHANGED <<a, b, jvars, bpath, bstr, ret>>

\* lend > 0 && (dir[lend-1] == '/')
HasTrailingSlash(s, off, l) == l > 0 /\ Ch(s, off + l - 1) = "/"

\* if (lend > 0 && (dir[lend-1] == '/')) lend--;
BaseTrailingSlash ==
    /\ pc = "b150"
    /\ lend' = IF HasTrailingSlash(b, dir, lend) THEN lend - 1 ELSE lend
    /\ pc' = "b153"
    /\ UNCHANGED <<a, b, jvars, bpath, dir, bstr, ret>>

\* lend > 0 && !strncmp(path, dir, lend)
PrefixMatch(p, poff, d, doff, l) == l > 0 /\ strncmp0(p, poff, d, doff, l)

\* The end of the string not taken as a boundary.
NotBoundary_NoNul(c) == c # "/"

\* str[0] != '/' && str[0] != '\0'
NotBoundary(c) == c # "/" /\ c # NUL

\* Lines 153-156.
BaseCompare ==
    /\ pc = "b153"
    /\ IF PrefixMatch(a, bpath, b, dir, lend)
       THEN /\ bstr' = bpath + lend
            /\ pc' = IF NotBoundary(Ch(a, bstr')) THEN "b163" ELSE "b157"
       ELSE UNCHANGED bstr /\ pc' = "b163"
    /\ UNCHANGED <<a, b, jvars, bpath, dir, lend, ret>>

\* An if in place of the loop: one slash skipped.
BaseSkipSlash_Once ==
    /\ pc = "b157"
    /\ bstr' = IF Ch(a, bstr) = "/" THEN bstr + 1 ELSE bstr
    /\ pc' = "b158"
    /\ UNCHANGED <<a, b, jvars, bpath, dir, lend, ret>>

\* for (; *str == '/'; str++);
BaseSkipSlash ==
    /\ pc = "b157"
    /\ IF Ch(a, bstr) = "/"
       THEN bstr' = bstr + 1 /\ pc' = "b157"
       ELSE UNCHANGED bstr /\ pc' = "b158"
    /\ UNCHANGED <<a, b, jvars, bpath, dir, lend, ret>>

\* (s[0] == '\0') ? dot : s, the choice of lines 158-159 and of line 163
DotIfEmpty(s, off) == IF Ch(s, off) = NUL THEN ToDot ELSE IntoPath(off)

\* if (str[0] == '\0') str = dot; return (char *)str;
BaseReturnRest ==
    /\ pc = "b158"
    /\ ret' = DotIfEmpty(a, bstr)
    /\ pc' = "b_done"
    /\ UNCHANGED <<a, b, jvars, bpath, dir, lend, bstr>>

\* The pointer as passed, were line 142 to advance a copy.
MismatchPtr_Orig(orig, stripped) == orig

\* The pointer line 163 tests and returns: path as line 142 left it, not as
\* it was passed.
MismatchPtr(orig, stripped) == stripped

\* mismatch: return (path[0] == '\0') ? (char *)dot : (char *)path;
BaseReturnMismatch ==
    /\ pc = "b163"
    /\ ret' = DotIfEmpty(a, MismatchPtr(0, bpath))
    /\ pc' = "b_done"
    /\ UNCHANGED <<a, b, jvars, bpath, dir, lend, bstr>>

\* The caller recombines: joinname(dir, basename2(path, dir)).
CallJoinnameOnResult ==
    /\ pc = "b_done"
    /\ JoinEnter(b, RetString(ret))
    /\ UNCHANGED <<a, b, bvars>>

------------------------------------------------------------------------------
Next ==
    \/ CallJoinname
    \/ JoinDotPath \/ JoinDotName
    \/ JoinStripName \/ JoinStripPath \/ JoinStripSlash
    \/ JoinLen \/ JoinMalloc
    \/ JoinCopyPath \/ JoinSeparator \/ JoinCopyName \/ JoinTerminate
    \/ JoinReturn
    \/ CallBasename2
    \/ BaseStripPath \/ BaseStripDir \/ BaseDotDir \/ BaseTrailingSlash
    \/ BaseCompare \/ BaseSkipSlash
    \/ BaseReturnRest \/ BaseReturnMismatch
    \/ CallJoinnameOnResult

Spec == Init /\ [][Next]_vars
------------------------------------------------------------------------------
\* What the properties below are stated with: strings as values, with no
\* pointers, lengths or buffers.

Str(r) == RetString(r)

RECURSIVE StripDotSlash(_)
StripDotSlash(s) ==
    IF Len(s) >= 2 /\ s[1] = "." /\ s[2] = "/"
    THEN StripDotSlash(Tail(Tail(s)))
    ELSE s

RECURSIVE StripLeadingSlashes(_)
StripLeadingSlashes(s) ==
    IF s # <<>> /\ Head(s) = "/" THEN StripLeadingSlashes(Tail(s)) ELSE s

Last(s) == s[Len(s)]
Front(s) == SubSeq(s, 1, Len(s) - 1)

RECURSIVE StripTrailingSlashes(_)
StripTrailingSlashes(s) ==
    IF s # <<>> /\ Last(s) = "/" THEN StripTrailingSlashes(Front(s)) ELSE s

DotAsEmpty(s) == IF s = <<".">> THEN <<>> ELSE s
NormPath(s) == StripDotSlash(DotAsEmpty(s))
NormName(s) == StripLeadingSlashes(StripDotSlash(DotAsEmpty(s)))

JoinRef(p, n) ==
    LET P == NormPath(p)
        N == NormName(n)
    IN IF P = <<>> /\ N = <<>> THEN <<".">>
       ELSE IF P # <<>> /\ N # <<>> /\ Last(P) # "/" THEN P \o <<"/">> \o N
       ELSE P \o N

IsPrefix(x, y) == Len(x) <= Len(y) /\ SubSeq(y, 1, Len(x)) = x
StartsWithDotSlash(s) == Len(s) >= 2 /\ s[1] = "." /\ s[2] = "/"

\* dir as basename2 compares it: leading "./" stripped, "." taken as empty,
\* one trailing "/" left out.
NormDir(d) ==
    LET s == StripDotSlash(d)
        t == DotAsEmpty(s)
    IN IF t # <<>> /\ Last(t) = "/" THEN Front(t) ELSE t

\* What follows the normalized dir in the "./"-stripped path.
Rest(p, d) == Suffix(StripDotSlash(p), Len(NormDir(d)))

CharPrefix(p, d) == Len(NormDir(d)) > 0 /\ IsPrefix(NormDir(d), StripDotSlash(p))
FalsePrefix(p, d) == CharPrefix(p, d) /\ Rest(p, d) # <<>> /\ Head(Rest(p, d)) # "/"
Mismatch(p, d) == ~CharPrefix(p, d) \/ FalsePrefix(p, d)

DotIfNone(s) == IF s = <<>> THEN <<".">> ELSE s

\* The states the properties speak about.
JoinReturned == pc = "j_done" /\ jret # NULL
DirectJoinReturned == JoinReturned /\ ret = None
RoundTripReturned == JoinReturned /\ ret # None
BaseReturned == pc = "b_done"

------------------------------------------------------------------------------
C2_Original ==
    (DirectJoinReturned /\ a # <<>> /\ Last(a) # "/" /\ b # <<>> /\ Head(b) # "/")
        => BufString(jret) = a \o <<"/">> \o b

\* C2, amended: the same, for a path and a name that moreover are not "." and
\* do not start with "./".
C2_SeparatorInserted ==
    (/\ DirectJoinReturned
     /\ a # <<>> /\ Last(a) # "/" /\ a # <<".">> /\ ~StartsWithDotSlash(a)
     /\ b # <<>> /\ Head(b) # "/" /\ b # <<".">> /\ ~StartsWithDotSlash(b))
        => BufString(jret) = a \o <<"/">> \o b

C2_Witness ==
    /\ DirectJoinReturned
    /\ a = <<"a">> /\ b = <<".", ".">>
    /\ BufString(jret) = <<"a", "/", ".", ".">>

\* C3, as claimed: if one argument of joinname is "." or empty, the result is
\* the other argument, whatever it is; two empty arguments give ".".  (When
\* both are "." or empty, either argument counts as the other one.)
DotOrEmpty(s) == s = <<>> \/ s = <<".">>

C3_ReturnsTheOther ==
    DirectJoinReturned =>
        /\ (DotOrEmpty(a) /\ ~DotOrEmpty(b)) => BufString(jret) = b
        /\ (DotOrEmpty(b) /\ ~DotOrEmpty(a)) => BufString(jret) = a
        /\ (DotOrEmpty(a) /\ DotOrEmpty(b) /\ ~(a = <<>> /\ b = <<>>))
               => BufString(jret) \in {a, b}
        /\ (a = <<>> /\ b = <<>>) => BufString(jret) = <<".">>

\* C4: the round trip joinname(dir, basename2(path, dir)), with path = a and
\* dir = b.  dir is a genuine slash-delimited prefix of path when path starts
\* with dir, dir names something and ends at a segment boundary of path.
GenuinePrefix(d, p) ==
    /\ d # <<>>
    /\ IsPrefix(d, p)
    /\ \/ Len(p) = Len(d)
       \/ p[Len(d) + 1] = "/"
       \/ Last(d) = "/"

\* path with the slash-run around the end of dir collapsed to one "/".
Collapsed(p, d) ==
    LET d0 == StripTrailingSlashes(d)
        r == Suffix(p, Len(d))
        r0 == StripLeadingSlashes(r)
    IN IF d0 = d /\ r0 = r THEN p ELSE d0 \o <<"/">> \o r0

\* C4, as claimed: for every dir that is a genuine slash-delimited prefix of
\* path, the round trip yields path with the boundary slash-run collapsed.
C4_Original ==
    (RoundTripReturned /\ GenuinePrefix(b, a)) => BufString(jret) = Collapsed(a, b)

\* The part of path after dir and after the slashes that follow.
Remainder(p, d) == StripLeadingSlashes(Suffix(p, Len(d)))

\* C4, amended: the same, for a dir ending in at most one "/" and a path not
\* starting with "./", when what remains of path after dir and the boundary
\* slashes is not "." and does not start with "./", and is empty only if
\* path is dir or dir ends in "/".
C4_RoundTrip ==
    (/\ RoundTripReturned /\ GenuinePrefix(b, a)
     /\ ~(Len(b) >= 2 /\ b[Len(b)] = "/" /\ b[Len(b) - 1] = "/")
     /\ ~StartsWithDotSlash(a)
     /\ Remainder(a, b) # <<".">> /\ ~StartsWithDotSlash(Remainder(a, b))
     /\ (Remainder(a, b) = <<>> => (a = b \/ Last(b) = "/")))
        => BufString(jret) = Collapsed(a, b)

C4_Witness ==
    /\ RoundTripReturned
    /\ a = <<"a", "/", "/", "a">> /\ b = <<"a", "/">>
    /\ Str(ret) = <<"a">>
    /\ BufString(jret) = <<"a", "/", "a">>

C6_FixedPaths ==
    (BaseReturned /\ a \in {<<"/">>, <<".">>, <<".", ".">>}) => Str(ret) = a

\* C7, as claimed: when dir is "." or "..", basename2(path, dir) is path, for
\* every path.  Stated for the paths that are not empty, do not start with
\* "./" and are not dir itself: the paths about which no other rule of the
\* documentation (the empty path, the stripping of "./", path equal to dir)
\* says anything else.
C7_DotDirs ==
    (/\ BaseReturned /\ b \in {<<".">>, <<".", ".">>}
     /\ a # <<>> /\ ~StartsWithDotSlash(a) /\ a # b)
        => Str(ret) = a

InJoinname ==
    pc \in {"j64", "j68", "j73", "j74", "j75", "j77", "j86", "j90", "j94",
            "j98", "j100", "j102", "j_done"}
PastSeparator == pc \in {"j98", "j100", "j102", "j_done"} /\ str # NULL

====
